---- MODULE Spec2Model ----
(***************************************************************************)
(* Model of OpenAiServer.  src/index.js: stripLeadingPhrases,               *)
(* isLikelyChitchat, the retrieval policy of askDocsStream and of the      *)
(* retriever, and streamModelResponse.  src/server.js: the startup load,   *)
(* the /ask-docs handler and the /v1/chat/completions handler.  Each part  *)
(* has its own specification; the variables of the other parts stay idle.  *)
(*                                                                         *)
(* Text is a sequence of one-character strings.  The character U+2019      *)
(* (right single quotation mark) is written "u2019" and the backquote is   *)
(* written "bq".                                                           *)
(***************************************************************************)
EXTENDS Integers, Sequences, FiniteSets, TLC

(***************************************************************************)
(* Characters and the character classes of the regular expressions         *)
(***************************************************************************)
UpperLetters == <<"A","B","C","D","E","F","G","H","I","J","K","L","M",
                  "N","O","P","Q","R","S","T","U","V","W","X","Y","Z">>

LowerLetters == <<"a","b","c","d","e","f","g","h","i","j","k","l","m",
                  "n","o","p","q","r","s","t","u","v","w","x","y","z">>

Digits == {"0","1","2","3","4","5","6","7","8","9"}

\* the white space class of the regular expressions and of String.trim
WhiteSpace == {" ", "\n", "\t", "\r"}

\* word characters: between two of them there is no word boundary
WordChars == {UpperLetters[i] : i \in 1..26} \cup {LowerLetters[i] : i \in 1..26}
             \cup Digits \cup {"_"}

\* the trailing class of rules 1 to 4: white space and , . : ; ! ( ) -
TrailClass == WhiteSpace \cup {",", ".", ":", ";", "!", "(", ")", "-"}

\* the class of rule 5: white space, double quote, apostrophe, backquote,
\* U+2019, and . , : ; - ( )
LeadPunctClass == WhiteSpace \cup {"\"", "'", "bq", "u2019", ".", ",", ":", ";", "-", "(", ")"}

\* the class of rule 3: apostrophe, U+2019, backquote
AposClass == {"'", "u2019", "bq"}

\* the /i flag: letters are compared without case
Lower(c) ==
    IF \E i \in 1..26 : UpperLetters[i] = c
    THEN LowerLetters[CHOOSE i \in 1..26 : UpperLetters[i] = c]
    ELSE c

(***************************************************************************)
(* Regular expression primitives, all anchored at a position p of t.       *)
(* A match is reported as the position after it, 0 meaning no match.       *)
(***************************************************************************)
\* sequencing: v is evaluated once and Op is applied to its value
Then(v, Op(_)) == CHOOSE r \in {Op(x) : x \in {v}} : TRUE

\* C* at p, greedy: the first position at or after p that is not in C
SkipClass(t, p, C) ==
    IF \A i \in p..Len(t) : t[i] \in C
    THEN Len(t) + 1
    ELSE CHOOSE q \in p..Len(t) :
            /\ t[q] \notin C
            /\ \A i \in p..(q - 1) : t[i] \in C

IsWordAt(t, i) == i >= 1 /\ i <= Len(t) /\ t[i] \in WordChars

\* a word boundary between positions p-1 and p
WordBoundary(t, p) == IsWordAt(t, p - 1) # IsWordAt(t, p)

\* Pattern elements: one character of a set (letters in lower case), one or
\* more white space, zero or more white space
Ch(c) == [k |-> "ch", s |-> {c}]

OneOf(S) == [k |-> "ch", s |-> S]

Sp1 == [k |-> "sp1", s |-> {}]

Sp0 == [k |-> "sp0", s |-> {}]

\* a literal word, letter by letter
Lit(word) == [i \in 1..Len(word) |-> Ch(word[i])]

\* the pattern pat (a sequence of elements) at p, white space runs greedy
RECURSIVE MatchEnd(_, _, _)
MatchEnd(t, p, pat) ==
    IF pat = <<>> THEN p
    ELSE IF Head(pat).k = "sp0"
    THEN MatchEnd(t, SkipClass(t, p, WhiteSpace), Tail(pat))
    ELSE IF p > Len(t) THEN 0
    ELSE IF Head(pat).k = "sp1"
    THEN IF t[p] \in WhiteSpace
         THEN MatchEnd(t, SkipClass(t, p, WhiteSpace), Tail(pat))
         ELSE 0
    ELSE IF Lower(t[p]) \in Head(pat).s
         THEN MatchEnd(t, p + 1, Tail(pat))
         ELSE 0

\* the end of the first alternative, in the order written, that matches at
\* the start of t and, if bounded, is followed by a word boundary; 0 if none
FirstMatch(t, alts, bounded) ==
    Then([i \in 1..Len(alts) |-> MatchEnd(t, 1, alts[i])],
         LAMBDA ends :
            LET ok(i) == ends[i] # 0 /\ (bounded => WordBoundary(t, ends[i]))
            IN  IF \E i \in 1..Len(alts) : ok(i)
                THEN ends[CHOOSE i \in 1..Len(alts) :
                             ok(i) /\ \A j \in 1..(i - 1) : ~ok(j)]
                ELSE 0)

\* t from position p to its end
From(t, p) == SubSeq(t, p, Len(t))

\* t.replace(rule, ""): the matched alternative and the trailing class go
Remove(t, alts, bounded) ==
    Then(FirstMatch(t, alts, bounded),
         LAMBDA e : IF e = 0 THEN t ELSE From(t, SkipClass(t, e, TrailClass)))

\* String.prototype.trim
Trim(text) ==
    Then(text,
         LAMBDA t :
            Then(SkipClass(t, 1, WhiteSpace),
                 LAMBDA a :
                    IF a > Len(t) THEN <<>>
                    ELSE SubSeq(t, a, CHOOSE q \in a..Len(t) :
                                         /\ t[q] \notin WhiteSpace
                                         /\ \A i \in (q + 1)..Len(t) : t[i] \in WhiteSpace)))

(***************************************************************************)
(* stripLeadingPhrases, rule by rule.  An optional element of a regular    *)
(* expression is written as two alternatives, the longer one first.        *)
(***************************************************************************)
\* rule 1: I, white space, then the first of  don't dont donU+2019t
\* do<spaces>not  do not  do  dont  i<spaces>don  that is followed by a word
\* boundary
Rule1Alts ==
    LET I == <<Ch("i"), Sp0>>
    IN  << I \o Lit(<<"d","o","n","'","t">>),
           I \o Lit(<<"d","o","n","t">>),
           I \o Lit(<<"d","o","n","u2019","t">>),
           I \o Lit(<<"d","o">>) \o <<Sp1>> \o Lit(<<"n","o","t">>),
           I \o Lit(<<"d","o"," ","n","o","t">>),
           I \o Lit(<<"d","o">>),
           I \o Lit(<<"d","o","n","t">>),
           I \o <<Ch("i"), Sp1>> \o Lit(<<"d","o","n">>) >>

\* rule 2: know, optionally followed by  based on the provided documents
\* and an optional full stop; no word boundary is asked after know
Rule2Alts ==
    LET know == Lit(<<"k","n","o","w">>)
        rest == <<Sp1>> \o Lit(<<"b","a","s","e","d">>) \o <<Sp1>> \o Lit(<<"o","n">>)
                \o <<Sp1>> \o Lit(<<"t","h","e">>)
                \o <<Sp1>> \o Lit(<<"p","r","o","v","i","d","e","d">>)
                \o <<Sp1>> \o Lit(<<"d","o","c","u","m","e","n","t","s">>)
    IN  << know \o rest \o <<Ch(".")>>, know \o rest, know >>

\* rule 3: n't, nt, an apostrophe-like character and t, or nU+2019t, followed
\* by a word boundary
Rule3Alts ==
    << Lit(<<"n","'","t">>),
       Lit(<<"n","t">>),
       <<OneOf(AposClass), Ch("t")>>,
       Lit(<<"n","u2019","t">>) >>

\* rule 4: don, i, or i<spaces>don, followed by a word boundary
Rule4Alts ==
    << Lit(<<"d","o","n">>),
       Lit(<<"i">>),
       <<Ch("i"), Sp1>> \o Lit(<<"d","o","n">>) >>

\* rule 0 removes leading white space, rule 5 the leading run of the
\* punctuation class; each rule is applied once, in this order
stripRules(text) ==
    IF text = <<>> THEN text
    ELSE Then(Then(Then(Then(Then(From(text, SkipClass(text, 1, WhiteSpace)),
                                  LAMBDA t0 : Remove(t0, Rule1Alts, TRUE)),
                             LAMBDA t1 : Remove(t1, Rule2Alts, FALSE)),
                        LAMBDA t2 : Remove(t2, Rule3Alts, TRUE)),
                   LAMBDA t3 : Remove(t3, Rule4Alts, TRUE)),
              LAMBDA t4 : From(t4, SkipClass(t4, 1, LeadPunctClass)))

stripLeadingPhrases(text) == Then(text, stripRules)

(***************************************************************************)
(* isLikelyChitchat and the retrieval policy of askDocsStream.  A score is *)
(* a number of hundredths: 25 stands for 0.25.                             *)
(***************************************************************************)
\* the alternatives of greetingRegex, in the order written
GreetingAlts ==
    << Lit(<<"h","i">>),
       Lit(<<"h","e","l","l","o">>),
       Lit(<<"h","e","y">>),
       Lit(<<"i","y","a">>),
       Lit(<<"h","a","l","l","o">>),
       Lit(<<"g","o","o","d"," ","m","o","r","n","i","n","g">>),
       Lit(<<"g","o","o","d"," ","a","f","t","e","r","n","o","o","n">>),
       Lit(<<"g","o","o","d"," ","e","v","e","n","i","n","g">>),
       Lit(<<"t","h","a","n","k","s">>),
       Lit(<<"t","h","a","n","k"," ","y","o","u">>),
       Lit(<<"b","y","e">>),
       Lit(<<"g","o","o","d","b","y","e">>),
       Lit(<<"s","u","p">>),
       Lit(<<"y","o">>),
       Lit(<<"w","h","a","t","'","s"," ","u","p">>),
       Lit(<<"w","h","a","t","s"," ","u","p">>) >>

\* the class that may follow a greeting: white space and ! . , ?
GreetTrailClass == WhiteSpace \cup {"!", ".", ",", "?"}

\* the words of the questionWords expression
QuestionWords ==
    << Lit(<<"w","h","o">>),
       Lit(<<"w","h","a","t">>),
       Lit(<<"w","h","e","n">>),
       Lit(<<"w","h","e","r","e">>),
       Lit(<<"w","h","y">>),
       Lit(<<"h","o","w">>),
       Lit(<<"w","h","i","c","h">>),
       Lit(<<"w","h","o","m">>),
       Lit(<<"w","h","o","s","e">>) >>

\* String.toLowerCase
toLowerCase(t) == [i \in 1..Len(t) |-> Lower(t[i])]

\* greetingRegex.test(s): some alternative, followed by the trailing class up
\* to the end of s
greetingTest(s) ==
    \E i \in 1..Len(GreetingAlts) :
        \E e \in {MatchEnd(s, 1, GreetingAlts[i])} :
            e # 0 /\ SkipClass(s, e, GreetTrailClass) = Len(s) + 1

\* questionWords.test(s): a question word between two word boundaries
questionWordsTest(s) ==
    \E p \in 1..Len(s) : \E i \in 1..Len(QuestionWords) :
        \E e \in {MatchEnd(s, p, QuestionWords[i])} :
            e # 0 /\ WordBoundary(s, p) /\ WordBoundary(s, e)

isLikelyChitchat(q) ==
    IF q = <<>> THEN FALSE
    ELSE \E s \in {toLowerCase(Trim(q))} :
            \/ greetingTest(s)
            \/ (s # <<>> /\ Len(s) <= 4 /\ \A i \in 1..Len(s) : s[i] \notin WhiteSpace)
            \/ (Len(s) <= 10 /\ ~questionWordsTest(s))

QHello == <<"H","e","l","l","o","!">>

QWhy == <<"w","h","y">>

QTellMe == <<"t","e","l","l"," ","m","e">>

QWhatIsX == <<"w","h","a","t"," ","i","s"," ","x">>

QRefund == <<"r","e","f","u","n","d"," ","p","o","l","i","c","y">>

Questions == {QHello, QWhy, QTellMe, QWhatIsX, QRefund}

\* the similarities of the indexed chunks to a question, in hundredths
ScoreValues == {0, 24, 25, 74, 81, 91}

\* chunks in the index
MaxScores == 3

\* largest topK
MaxTopK == 2

\* the contents of the index as the question sees them: the similarity of
\* each chunk, in insertion order
Indexes == UNION {[1..n -> ScoreValues] : n \in 0..MaxScores}

MIN_SCORE_FOR_DOCS == 25

\* scores.sort((a, b) => b.score - a.score): stable, highest first
RECURSIVE sortDescending(_)
sortDescending(sc) ==
    IF sc = <<>> THEN <<>>
    ELSE LET m == CHOOSE i \in 1..Len(sc) :
                     /\ \A j \in 1..Len(sc) : sc[j].score <= sc[i].score
                     /\ \A j \in 1..(i - 1) : sc[j].score < sc[i].score
         IN  <<sc[m]>> \o sortDescending(SubSeq(sc, 1, m - 1) \o SubSeq(sc, m + 1, Len(sc)))

\* SimpleVectorStore.getScoresForQuery, after the query embedding arrived
getScoresForQuery(idx) ==
    sortDescending([i \in 1..Len(idx) |-> [doc |-> i, score |-> idx[i]]])

\* scores[0]?.score || 0
topScoreOf(sc) == IF sc = <<>> THEN 0 ELSE sc[1].score

\* Array.slice(0, k)
slice(sc, k) == SubSeq(sc, 1, IF k < Len(sc) THEN k ELSE Len(sc))

\* topScore > 0.9 ? 0.75 : topScore > 0.8 ? 0.7 : the default
adaptiveThreshold(top, dflt) == IF top > 90 THEN 75 ELSE IF top > 80 THEN 70 ELSE dflt

\* mutant: the unfiltered fallback is not cut at topK
getRelevantDocumentsUncut(sc, k, minScore) ==
    LET threshold == adaptiveThreshold(topScoreOf(sc), minScore)
        filtered == slice(SelectSeq(sc, LAMBDA x : x.score >= threshold), k)
    IN  IF Len(filtered) > 0 THEN filtered ELSE sc

\* the retriever of asRetriever(topK, minScore), after the scores arrived
getRelevantDocuments(sc, k, minScore) ==
    LET threshold == adaptiveThreshold(topScoreOf(sc), minScore)
        filtered == slice(SelectSeq(sc, LAMBDA x : x.score >= threshold), k)
    IN  IF Len(filtered) > 0 THEN filtered ELSE slice(sc, k)

(***************************************************************************)
(* Program constants and the bounds of the model                           *)
(***************************************************************************)
STREAM_START_THRESHOLD == 128

MIN_SEND_DELTA == 8

\* upstream chunks delivered to one session
MaxChunks == 3

\* error events emitted on the response of one session
MaxErrorEvents == 1

\* length of the long token
LongLen == 64

\* length of the tokens in which the fallback sentence is delivered
TokenLen == 3

(***************************************************************************)
(* Upstream payloads.  An upstream chunk is a sequence of lines; a line is *)
(* a data line with a JSON delta, the data line [DONE], a data line whose   *)
(* JSON does not parse, or a line that does not start with data.           *)
(***************************************************************************)
TokLine(content) == [kind |-> "json", content |-> content]

DoneLine == [kind |-> "done", content |-> <<>>]

MalformedLine == [kind |-> "malformed", content |-> <<>>]

OtherLine == [kind |-> "other", content |-> <<>>]

TokParis == <<"P","a","r","i","s">>

TokLong == [i \in 1..LongLen |-> "x"]

TokRefusal == <<"I"," ","d","o","n","'","t"," ">>

TokSunshine == <<" ","s","u","n","s","h","i","n","e">>

TokSpace == <<" ">>

Chunks ==
    { <<TokLine(TokParis)>>,
      <<TokLine(TokLong)>>,
      <<TokLine(TokRefusal)>>,
      <<TokLine(TokSunshine)>>,
      <<OtherLine, MalformedLine, TokLine(<<>>), TokLine(TokSpace), DoneLine, TokLine(TokParis)>>,
      <<DoneLine>> }

\* the literal fallback sentence, with U+2019 as its apostrophe
FallbackSentence ==
    <<"I"," ","d","o","n","u2019","t"," ","k","n","o","w"," ","b","a","s","e","d"," ",
      "o","n"," ","t","h","e"," ","p","r","o","v","i","d","e","d"," ",
      "d","o","c","u","m","e","n","t","s",".">>

\* the fallback sentence as the model emits it, cut in tokens of TokenLen
\* characters (the last one may be shorter)
NumSentenceTokens == (Len(FallbackSentence) + TokenLen - 1) \div TokenLen

SentenceTokens ==
    [i \in 1..NumSentenceTokens |->
        SubSeq(FallbackSentence, (i - 1) * TokenLen + 1,
               IF i * TokenLen <= Len(FallbackSentence) THEN i * TokenLen
               ELSE Len(FallbackSentence))]

(***************************************************************************)
(* State                                                                   *)
(***************************************************************************)
VARIABLES
    pc,              \* "start", "fetch" (awaiting fetch), "read" (awaiting reader.read), "done"
    source,          \* "docs" or "openai"
    fetchCalls,      \* calls of fetch to the completion provider
    buffer, lastSentLen, startedStreaming, flushTimer, startTimer,
    headersSent, ended, statusPingSent, clientClosed,
    writableEnded,   \* res.writableEnded
    resHeaders,      \* the SSE headers are set on res
    out,             \* the calls of res.write and res.end, in order
    endCalls,        \* calls of res.end
    closeListener,   \* onClientClose is registered for close
    errorListener,   \* the error listener is registered
    cancelCalls,     \* calls of reader.cancel
    readerObtained,  \* response.body.getReader() was called
    clientGone,      \* the client has disconnected
    closeEmitted,    \* close was emitted on res
    errorEvents,     \* error events emitted on res
    chunksRead,      \* upstream chunks delivered
    timeoutElapsed,  \* the start timeout has fired
    fallbackAt,      \* position in out of the fallback sentence, 0 if not written
    finalConnected,  \* the client was connected when the session finalized
    readFailed,      \* reader.read() rejected
    response,        \* how the fetch ended: "none", "ok", "notok", "rejected"
    value,           \* the chunk the last reader.read() resolved with
    upstreamDone,    \* the read loop has consumed a data: [DONE] line
    \* askDocsStream, up to its call of streamModelResponse
    question, index, scores, topK, askPc, route, chosen, indexCalls, embedCalls,
    \* stripLeadingPhrases applied to a text and to its own result
    stripIn, stripOut,
    \* the /v1/chat/completions handler
    chatPc, chatOut, chatHeadersSent, chatEnded, chatChunks,
    \* the process: the startup load and the /ask-docs requests
    vectorStore, loadCalls, startupPc, reqPc, reqStore

streamVars == <<pc, source, fetchCalls, buffer, lastSentLen, startedStreaming, flushTimer,
          startTimer, headersSent, ended, statusPingSent, clientClosed, writableEnded,
          resHeaders, out, endCalls, closeListener, errorListener, cancelCalls,
          readerObtained, clientGone, closeEmitted, errorEvents, chunksRead,
          timeoutElapsed, fallbackAt, finalConnected, readFailed, response, value, upstreamDone>>

askVars == <<question, index, scores, topK, askPc, route, chosen, indexCalls, embedCalls>>

stripVars == <<stripIn, stripOut>>

chatVars == <<chatPc, chatOut, chatHeadersSent, chatEnded, chatChunks>>

loadVars == <<vectorStore, loadCalls, startupPc, reqPc, reqStore>>

vars == <<streamVars, askVars, stripVars, chatVars, loadVars>>

\* the closure state of streamModelResponse and the response it writes to
Cur ==
    [ source |-> source, buffer |-> buffer, lastSentLen |-> lastSentLen,
      startedStreaming |-> startedStreaming, flushTimer |-> flushTimer,
      startTimer |-> startTimer, headersSent |-> headersSent, ended |-> ended,
      statusPingSent |-> statusPingSent, clientClosed |-> clientClosed,
      writableEnded |-> writableEnded, resHeaders |-> resHeaders, out |-> out,
      endCalls |-> endCalls, closeListener |-> closeListener,
      errorListener |-> errorListener, cancelCalls |-> cancelCalls,
      clientGone |-> clientGone, fallbackAt |-> fallbackAt ]

Commit(w) ==
    /\ buffer' = w.buffer
    /\ lastSentLen' = w.lastSentLen
    /\ startedStreaming' = w.startedStreaming
    /\ flushTimer' = w.flushTimer
    /\ startTimer' = w.startTimer
    /\ headersSent' = w.headersSent
    /\ ended' = w.ended
    /\ statusPingSent' = w.statusPingSent
    /\ clientClosed' = w.clientClosed
    /\ writableEnded' = w.writableEnded
    /\ resHeaders' = w.resHeaders
    /\ out' = w.out
    /\ endCalls' = w.endCalls
    /\ closeListener' = w.closeListener
    /\ errorListener' = w.errorListener
    /\ cancelCalls' = w.cancelCalls
    /\ clientGone' = w.clientGone
    /\ fallbackAt' = w.fallbackAt

(***************************************************************************)
(* The response object                                                     *)
(***************************************************************************)
\* res.write(data): gone records whether the client had already disconnected
resWrite(w, kind, content) ==
    [w EXCEPT !.out = Append(@, [kind |-> kind, content |-> content, gone |-> w.clientGone])]

\* res.end(); the call is recorded in out after the writes that preceded it
resEnd(w) ==
    [w EXCEPT !.writableEnded = TRUE, !.endCalls = @ + 1,
              !.out = Append(@, [kind |-> "end", content |-> <<>>, gone |-> w.clientGone])]

(***************************************************************************)
(* The helpers of streamModelResponse                                      *)
(***************************************************************************)
\* mutant: the disconnect handler forgets to cancel the upstream reader
onClientCloseNoCancel(w) == [w EXCEPT !.clientClosed = TRUE, !.ended = TRUE]

onClientClose(w) ==
    [w EXCEPT !.clientClosed = TRUE, !.ended = TRUE, !.cancelCalls = @ + 1]

ensureHeaders(w) ==
    IF w.headersSent \/ w.writableEnded \/ w.clientClosed THEN w
    ELSE [w EXCEPT !.resHeaders = TRUE, !.headersSent = TRUE]

safeWrite(w, kind, content) ==
    IF w.ended \/ w.writableEnded \/ w.clientClosed THEN w
    ELSE resWrite(w, kind, content)

\* the keep-alive comment, written before the first event
statusPing(w) ==
    IF ~w.statusPingSent
    THEN [safeWrite(w, "ping", <<>>) EXCEPT !.statusPingSent = TRUE]
    ELSE w

sendChunk(w, chunk) ==
    IF chunk = <<>> \/ w.ended \/ w.writableEnded \/ w.clientClosed THEN w
    ELSE Then(Then(Then(w, ensureHeaders), statusPing),
              LAMBDA x : safeWrite(x, "content", chunk))

startPeriodicFlush(w) ==
    IF ~w.flushTimer THEN [w EXCEPT !.flushTimer = TRUE] ELSE w

clearTimers(w) == [w EXCEPT !.flushTimer = FALSE, !.startTimer = "null"]

\* the start transition of flushIfNeeded
flushStart(w, stripped) ==
    Then(Then([w EXCEPT !.startedStreaming = TRUE, !.buffer = stripped],
              LAMBDA w1 :
                 Then(Trim(From(w1.buffer, w1.lastSentLen + 1)),
                      LAMBDA toSend :
                         IF toSend # <<>>
                         THEN [sendChunk(w1, toSend) EXCEPT !.lastSentLen = Len(w1.buffer)]
                         ELSE w1)),
         startPeriodicFlush)

\* mutant: the sent length is set to the length of the increment instead of
\* the length of the buffer
flushDeltaChunkLen(w, force) ==
    IF Len(w.buffer) - w.lastSentLen >= MIN_SEND_DELTA \/ force
    THEN Then(Trim(stripLeadingPhrases(From(w.buffer, w.lastSentLen + 1))),
              LAMBDA chunk :
                 [(IF chunk # <<>> THEN sendChunk(w, chunk) ELSE w)
                     EXCEPT !.lastSentLen = Len(chunk)])
    ELSE w

\* the streaming branch of flushIfNeeded
flushDelta(w, force) ==
    IF Len(w.buffer) - w.lastSentLen >= MIN_SEND_DELTA \/ force
    THEN Then(Trim(stripLeadingPhrases(From(w.buffer, w.lastSentLen + 1))),
              LAMBDA chunk :
                 [(IF chunk # <<>> THEN sendChunk(w, chunk) ELSE w)
                     EXCEPT !.lastSentLen = Len(w.buffer)])
    ELSE w

\* mutant: the flush does not look at the ended flag or at the response
flushIfNeededUnguarded(w, force) ==
    IF ~w.startedStreaming
    THEN Then(stripLeadingPhrases(w.buffer),
              LAMBDA stripped :
                 IF \/ Len(Trim(stripped)) >= STREAM_START_THRESHOLD
                    \/ (force /\ Len(Trim(stripped)) > 0)
                 THEN flushStart(w, stripped)
                 ELSE w)
    ELSE flushDelta(w, force)

\* mutant: streaming starts as soon as the stripped buffer is not empty
flushIfNeededEager(w, force) ==
    IF w.ended \/ w.writableEnded \/ w.clientClosed THEN w
    ELSE IF ~w.startedStreaming
    THEN Then(stripLeadingPhrases(w.buffer),
              LAMBDA stripped :
                 IF Len(Trim(stripped)) > 0 THEN flushStart(w, stripped) ELSE w)
    ELSE flushDelta(w, force)

flushIfNeeded(w, force) ==
    IF w.ended \/ w.writableEnded \/ w.clientClosed THEN w
    ELSE IF ~w.startedStreaming
    THEN Then(stripLeadingPhrases(w.buffer),
              LAMBDA stripped :
                 IF \/ Len(Trim(stripped)) >= STREAM_START_THRESHOLD
                    \/ (force /\ Len(Trim(stripped)) > 0)
                 THEN flushStart(w, stripped)
                 ELSE w)
    ELSE flushDelta(w, force)

(***************************************************************************)
(* The read loops: one upstream chunk, line by line                        *)
(***************************************************************************)
\* chunk.split("\n").filter(line => line.trim().startsWith("data: "))
dataLines(chunk) == SelectSeq(chunk, LAMBDA l : l.kind # "other")

\* the body of the document-mode for loop for one parsed line
docsLine(w, line) ==
    IF line.kind = "json" /\ line.content # <<>>
    THEN Then(Then([w EXCEPT !.buffer = @ \o line.content],
                   LAMBDA w1 : IF ~w1.startedStreaming
                               THEN [w1 EXCEPT !.buffer = stripLeadingPhrases(@)]
                               ELSE w1),
              LAMBDA w2 : flushIfNeeded(w2, FALSE))
    ELSE w

\* mutant: general mode applies the phrase stripper to the token
generalLineStripped(w, line) ==
    IF line.kind = "json" /\ line.content # <<>> /\ ~w.clientClosed /\ ~w.writableEnded
    THEN safeWrite(w, "content", stripLeadingPhrases(line.content))
    ELSE w

\* the body of the general-mode for loop for one parsed line
generalLine(w, line) ==
    IF line.kind = "json" /\ line.content # <<>> /\ ~w.clientClosed /\ ~w.writableEnded
    THEN safeWrite(w, "content", line.content)
    ELSE w

\* mutant: a line that does not parse ends the loop over the lines
RECURSIVE forLinesStopAtMalformed(_, _)
forLinesStopAtMalformed(w, lines) ==
    IF lines = <<>> \/ w.clientClosed THEN w
    ELSE IF Head(lines).kind \in {"done", "malformed"} THEN w
    ELSE Then(IF w.source = "openai" THEN generalLine(w, Head(lines))
              ELSE docsLine(w, Head(lines)),
              LAMBDA w1 : forLinesStopAtMalformed(w1, Tail(lines)))

\* for (const line of lines): leaves the loop at [DONE] or once the client closed
RECURSIVE forLines(_, _)
forLines(w, lines) ==
    IF lines = <<>> \/ w.clientClosed THEN w
    ELSE IF Head(lines).kind = "done" THEN w
    ELSE Then(IF w.source = "openai" THEN generalLine(w, Head(lines))
              ELSE docsLine(w, Head(lines)),
              LAMBDA w1 : forLines(w1, Tail(lines)))

(***************************************************************************)
(* The finalizers                                                          *)
(***************************************************************************)
\* mutant: the terminal marker is written without looking at the flags
finalDoneUnguarded(w) == Then(resWrite(w, "done", <<>>), resEnd)

\* if (!ended && !res.writableEnded && !clientClosed) { [DONE]; res.end() }
finalDone(w) ==
    IF ~w.ended /\ ~w.writableEnded /\ ~w.clientClosed
    THEN Then(safeWrite(w, "done", <<>>), resEnd)
    ELSE w

\* the finally of the general-mode try
innerFinally(w) ==
    [Then(Then(w, clearTimers), finalDone) EXCEPT !.ended = TRUE, !.closeListener = FALSE]

\* mutant: the fallback sentence is sent whether or not streaming started
terminalFallbackAlways(w) ==
    IF w.source = "docs" /\ ~w.clientClosed
    THEN Then(Then(Then(w, ensureHeaders), LAMBDA x : sendChunk(x, FallbackSentence)),
              LAMBDA w1 : IF Len(w1.out) > Len(w.out)
                          THEN [w1 EXCEPT !.fallbackAt = Len(w1.out)]
                          ELSE w1)
    ELSE w

\* the terminal fallback of the outer finally
terminalFallback(w) ==
    IF ~w.startedStreaming /\ w.source = "docs" /\ ~w.clientClosed
    THEN Then(Then(Then(w, ensureHeaders), LAMBDA x : sendChunk(x, FallbackSentence)),
              LAMBDA w1 : IF Len(w1.out) > Len(w.out)
                          THEN [w1 EXCEPT !.fallbackAt = Len(w1.out)]
                          ELSE w1)
    ELSE w

\* the finally of the outer try
outerFinally(w) ==
    [Then(Then(Then(Then(w, clearTimers), LAMBDA x : flushIfNeeded(x, TRUE)),
               terminalFallback),
          finalDone)
        EXCEPT !.ended = TRUE, !.closeListener = FALSE]

\* leaving the read loop: general mode runs its own finally, returns from it,
\* and the outer finally runs after it; document mode runs the outer one
finalize(w) ==
    IF w.source = "openai" THEN Then(Then(w, innerFinally), outerFinally)
    ELSE Then(w, outerFinally)

(***************************************************************************)
(* Initial state: the handler has received the request                     *)
(***************************************************************************)
\* the state of streamModelResponse when the handler has received the request
StreamIdle ==
    /\ pc = "start"
    /\ fetchCalls = 0
    /\ buffer = <<>>
    /\ lastSentLen = 0
    /\ startedStreaming = FALSE
    /\ flushTimer = FALSE
    /\ startTimer = "null"
    /\ headersSent = FALSE
    /\ ended = FALSE
    /\ statusPingSent = FALSE
    /\ clientClosed = FALSE
    /\ writableEnded = FALSE
    /\ resHeaders = FALSE
    /\ out = <<>>
    /\ endCalls = 0
    /\ closeListener = FALSE
    /\ errorListener = FALSE
    /\ cancelCalls = 0
    /\ readerObtained = FALSE
    /\ clientGone = FALSE
    /\ closeEmitted = FALSE
    /\ errorEvents = 0
    /\ chunksRead = 0
    /\ timeoutElapsed = FALSE
    /\ fallbackAt = 0
    /\ finalConnected = FALSE
    /\ readFailed = FALSE
    /\ response = "none"
    /\ value = <<>>
    /\ upstreamDone = FALSE

\* askDocsStream has not been called
AskIdle ==
    /\ question = <<>>
    /\ index = <<>>
    /\ scores = <<>>
    /\ topK = 0
    /\ askPc = "idle"
    /\ route = "none"
    /\ chosen = <<>>
    /\ indexCalls = 0
    /\ embedCalls = 0

StripIdle == stripIn = <<>> /\ stripOut = <<>>

\* no request on /v1/chat/completions
ChatIdle ==
    /\ chatPc = "idle"
    /\ chatOut = <<>>
    /\ chatHeadersSent = FALSE
    /\ chatEnded = FALSE
    /\ chatChunks = 0

\* the process is not observed
LoadIdle ==
    /\ vectorStore = 0
    /\ loadCalls = 0
    /\ startupPc = "idle"
    /\ reqPc = <<>>
    /\ reqStore = <<>>

Init ==
    /\ source \in {"docs", "openai"}
    /\ StreamIdle
    /\ AskIdle /\ StripIdle /\ ChatIdle /\ LoadIdle

(***************************************************************************)
(* Steps of streamModelResponse                                            *)
(***************************************************************************)
\* the fetch is issued and awaited
IssueFetch ==
    /\ pc = "start"
    /\ pc' = "fetch"
    /\ fetchCalls' = fetchCalls + 1
    /\ UNCHANGED <<askVars, stripVars, chatVars, loadVars, value, upstreamDone,
                   source, buffer,
                   lastSentLen, startedStreaming, flushTimer, startTimer,
                   headersSent, ended, statusPingSent, clientClosed,
                   writableEnded, resHeaders, out, endCalls, closeListener,
                   errorListener, cancelCalls, readerObtained, clientGone,
                   closeEmitted, errorEvents, chunksRead, timeoutElapsed,
                   fallbackAt, finalConnected, readFailed, response>>

\* mutant: the error line is written and the response is left open
notOkResponseNoEnd(w) ==
    IF ~w.writableEnded
    THEN resWrite([w EXCEPT !.resHeaders = TRUE], "error", <<>>)
    ELSE w

\* the response is not ok: one error line, res.end(), return
notOkResponse(w) ==
    IF ~w.writableEnded
    THEN Then(resWrite([w EXCEPT !.resHeaders = TRUE], "error", <<>>), resEnd)
    ELSE w

FetchNotOk ==
    /\ pc = "fetch"
    /\ pc' = "done"
    /\ \E w \in {Cur} : \E r \in {notOkResponse(w)} : Commit(r)
    /\ finalConnected' = ~clientGone
    /\ response' = "notok"
    /\ UNCHANGED <<askVars, stripVars, chatVars, loadVars, value, upstreamDone,
                   source,
                   fetchCalls, readerObtained, closeEmitted, errorEvents,
                   chunksRead, timeoutElapsed, readFailed>>

\* the response is ok: the reader is taken, the listeners are registered, and
\* the session runs up to its first reader.read()
enterLoop(w) ==
    Then([w EXCEPT !.closeListener = TRUE, !.errorListener = TRUE],
         LAMBDA w1 : IF w1.source = "openai"
                     THEN Then(Then(w1, ensureHeaders), statusPing)
                     ELSE [w1 EXCEPT !.startTimer = "pending"])

FetchOk ==
    /\ pc = "fetch"
    /\ pc' = "read"
    /\ readerObtained' = TRUE
    /\ \E w \in {Cur} : \E r \in {enterLoop(w)} : Commit(r)
    /\ response' = "ok"
    /\ UNCHANGED <<askVars, stripVars, chatVars, loadVars, value, upstreamDone,
                   source,
                   fetchCalls, closeEmitted, errorEvents, chunksRead,
                   timeoutElapsed, finalConnected, readFailed>>

\* fetch rejects: the exception leaves streamModelResponse and askDocsStream
\* and is caught by the /ask-docs handler
handlerCatch(w) ==
    IF ~w.resHeaders
    THEN Then(resWrite(w, "json500", <<>>), resEnd)
    ELSE Then(Then(resWrite(w, "error", <<>>), LAMBDA x : resWrite(x, "done", <<>>)), resEnd)

FetchReject ==
    /\ pc = "fetch"
    /\ pc' = "done"
    /\ \E w \in {Cur} : \E r \in {handlerCatch(w)} : Commit(r)
    /\ finalConnected' = ~clientGone
    /\ response' = "rejected"
    /\ UNCHANGED <<askVars, stripVars, chatVars, loadVars, value, upstreamDone,
                   source,
                   fetchCalls, readerObtained, closeEmitted, errorEvents,
                   chunksRead, timeoutElapsed, readFailed>>

\* the loop over the lines comes to a data: [DONE] line
reachesDone(w, lines) ==
    ~w.clientClosed /\ \E i \in DOMAIN lines : lines[i].kind = "done"

\* reader.read() resolves with a chunk; the loop comes back to reader.read()
ReadChunk ==
    /\ pc = "read"
    /\ cancelCalls = 0
    /\ chunksRead < MaxChunks
    /\ \E c \in Chunks, w \in {Cur} :
          /\ value' = c
          /\ upstreamDone' = (upstreamDone \/ reachesDone(w, dataLines(c)))
          /\ \E r \in {forLines(w, dataLines(c))} : Commit(r)
    /\ chunksRead' = chunksRead + 1
    /\ UNCHANGED <<askVars, stripVars, chatVars, loadVars, pc, source,
                   fetchCalls, readerObtained, closeEmitted, errorEvents,
                   timeoutElapsed, finalConnected, readFailed, response>>

\* reader.read() resolves with done: the upstream ended
ReadDone ==
    /\ pc = "read"
    /\ cancelCalls = 0
    /\ pc' = "done"
    /\ \E w \in {Cur} : \E r \in {finalize(w)} : Commit(r)
    /\ finalConnected' = ~clientGone
    /\ UNCHANGED <<askVars, stripVars, chatVars, loadVars, value, upstreamDone,
                   source,
                   fetchCalls, readerObtained, closeEmitted, errorEvents,
                   chunksRead, timeoutElapsed, readFailed, response>>

\* reader.read() resolves with done because reader.cancel() was called
ReadCancelled ==
    /\ pc = "read"
    /\ cancelCalls > 0
    /\ pc' = "done"
    /\ \E w \in {Cur} : \E r \in {finalize(w)} : Commit(r)
    /\ finalConnected' = ~clientGone
    /\ UNCHANGED <<askVars, stripVars, chatVars, loadVars, value, upstreamDone,
                   source,
                   fetchCalls, readerObtained, closeEmitted, errorEvents,
                   chunksRead, timeoutElapsed, readFailed, response>>

\* reader.read() rejects: the catch (document mode) or the inner finally
\* (general mode) takes over
ReadError ==
    /\ pc = "read"
    /\ cancelCalls = 0
    /\ pc' = "done"
    /\ \E w \in {Cur} : \E r \in {finalize(w)} : Commit(r)
    /\ finalConnected' = ~clientGone
    /\ readFailed' = TRUE
    /\ UNCHANGED <<askVars, stripVars, chatVars, loadVars, value, upstreamDone,
                   source,
                   fetchCalls, readerObtained, closeEmitted, errorEvents,
                   chunksRead, timeoutElapsed, response>>

(***************************************************************************)
(* Scheduled callbacks                                                     *)
(***************************************************************************)
\* the setTimeout callback of the start timer
startTimeoutFired(w) ==
    Then([w EXCEPT !.startTimer = "fired"],
         LAMBDA w1 : IF ~w1.startedStreaming /\ ~w1.clientClosed
                     THEN flushIfNeeded(w1, TRUE)
                     ELSE w1)

StartTimeout ==
    /\ pc \in {"read", "done"}
    /\ startTimer = "pending"
    /\ \E w \in {Cur} : \E r \in {startTimeoutFired(w)} : Commit(r)
    /\ timeoutElapsed' = TRUE
    /\ UNCHANGED <<askVars, stripVars, chatVars, loadVars, value, upstreamDone,
                   pc, source,
                   fetchCalls, readerObtained, closeEmitted, errorEvents,
                   chunksRead, finalConnected, readFailed, response>>

\* the setInterval callback of the flush timer
FlushTick ==
    /\ pc \in {"read", "done"}
    /\ flushTimer
    /\ \E w \in {Cur} : \E r \in {flushIfNeeded(w, TRUE)} : Commit(r)
    /\ UNCHANGED <<askVars, stripVars, chatVars, loadVars, value, upstreamDone,
                   pc, source,
                   fetchCalls, readerObtained, closeEmitted, errorEvents,
                   chunksRead, timeoutElapsed, finalConnected, readFailed,
                   response>>

(***************************************************************************)
(* Events of the response                                                  *)
(***************************************************************************)
\* the client disconnects and close is emitted on res, once
ClientClose ==
    /\ ~closeEmitted
    /\ closeEmitted' = TRUE
    /\ \E w \in {[Cur EXCEPT !.clientGone = TRUE]} :
          \E r \in {IF w.closeListener THEN onClientClose(w) ELSE w} : Commit(r)
    /\ UNCHANGED <<askVars, stripVars, chatVars, loadVars, value, upstreamDone,
                   pc, source,
                   fetchCalls, readerObtained, errorEvents, chunksRead,
                   timeoutElapsed, finalConnected, readFailed, response>>

\* error is emitted on res while the error listener is registered
ResError ==
    /\ errorListener
    /\ errorEvents < MaxErrorEvents
    /\ errorEvents' = errorEvents + 1
    /\ \E w \in {[Cur EXCEPT !.clientGone = TRUE]} : \E r \in {onClientClose(w)} : Commit(r)
    /\ UNCHANGED <<askVars, stripVars, chatVars, loadVars, value, upstreamDone,
                   pc, source,
                   fetchCalls, readerObtained, closeEmitted, chunksRead,
                   timeoutElapsed, finalConnected, readFailed, response>>

Next ==
    \/ IssueFetch
    \/ FetchNotOk
    \/ FetchOk
    \/ FetchReject
    \/ ReadChunk
    \/ ReadDone
    \/ ReadCancelled
    \/ ReadError
    \/ StartTimeout
    \/ FlushTick
    \/ ClientClose
    \/ ResError

Spec == Init /\ [][Next]_vars

(***************************************************************************)
(* A document-mode session whose upstream emits the fallback sentence,     *)
(* token by token, and then ends                                           *)
(***************************************************************************)
SentenceInit ==
    /\ source = "docs"
    /\ StreamIdle
    /\ AskIdle /\ StripIdle /\ ChatIdle /\ LoadIdle

\* reader.read() resolves with the next token of the sentence
ReadSentenceToken ==
    /\ pc = "read"
    /\ cancelCalls = 0
    /\ chunksRead < NumSentenceTokens
    /\ \E c \in {<<TokLine(SentenceTokens[chunksRead + 1])>>}, w \in {Cur} :
          /\ value' = c
          /\ upstreamDone' = (upstreamDone \/ reachesDone(w, dataLines(c)))
          /\ \E r \in {forLines(w, dataLines(c))} : Commit(r)
    /\ chunksRead' = chunksRead + 1
    /\ UNCHANGED <<askVars, stripVars, chatVars, loadVars, pc, source,
                   fetchCalls, readerObtained, closeEmitted, errorEvents,
                   timeoutElapsed, finalConnected, readFailed, response>>

\* the upstream ends after the last token
ReadSentenceDone ==
    /\ chunksRead = NumSentenceTokens
    /\ ReadDone

SentenceNext ==
    \/ IssueFetch
    \/ FetchOk
    \/ ReadSentenceToken
    \/ ReadSentenceDone
    \/ ReadCancelled
    \/ StartTimeout
    \/ FlushTick
    \/ ClientClose
    \/ ResError

SentenceSpec == SentenceInit /\ [][SentenceNext]_vars

(***************************************************************************)
(* askDocsStream, from its call to its call of streamModelResponse, and    *)
(* the retriever of asRetriever                                            *)
(***************************************************************************)
AskInit ==
    /\ question \in Questions
    /\ index \in Indexes
    /\ topK \in 1..MaxTopK
    /\ scores = <<>>
    /\ askPc = "start"
    /\ route = "none"
    /\ chosen = <<>>
    /\ indexCalls = 0
    /\ embedCalls = 0
    /\ source = "docs"
    /\ StreamIdle
    /\ StripIdle /\ ChatIdle /\ LoadIdle

\* mutant: the index is queried whatever the classification of the question
AskGetScoresAlways ==
    /\ askPc = "start"
    /\ askPc' = "embedding"
    /\ indexCalls' = indexCalls + 1
    /\ embedCalls' = embedCalls + 1
    /\ UNCHANGED <<question, index, scores, topK, route, chosen,
                   streamVars, stripVars, chatVars, loadVars>>

\* a chitchat question goes to streamModelResponse with source openai
AskChitchat ==
    /\ askPc = "start"
    /\ isLikelyChitchat(question)
    /\ askPc' = "stream"
    /\ route' = "openai"
    /\ UNCHANGED <<question, index, scores, topK, chosen, indexCalls, embedCalls,
                   streamVars, stripVars, chatVars, loadVars>>

\* any other question: getScoresForQuery is called and awaits fetchEmbedding
AskGetScores ==
    /\ askPc = "start"
    /\ ~isLikelyChitchat(question)
    /\ askPc' = "embedding"
    /\ indexCalls' = indexCalls + 1
    /\ embedCalls' = embedCalls + 1
    /\ UNCHANGED <<question, index, scores, topK, route, chosen,
                   streamVars, stripVars, chatVars, loadVars>>

\* mutant: the confidence floor is compared with the lowest score
askRouteLowest(sc) ==
    IF (IF sc = <<>> THEN 0 ELSE sc[Len(sc)].score) < MIN_SCORE_FOR_DOCS
    THEN "openai" ELSE "docs"

\* the choice of the source from the top score
askRoute(sc) == IF topScoreOf(sc) < MIN_SCORE_FOR_DOCS THEN "openai" ELSE "docs"

\* the chunks of the document prompt
askChosen(sc, k) ==
    LET threshold == adaptiveThreshold(topScoreOf(sc), 20)
        filtered == slice(SelectSeq(sc, LAMBDA x : x.score >= threshold), k)
    IN  IF Len(filtered) > 0 THEN filtered ELSE slice(sc, k)

\* the embedding arrives: scores, top score, source and chunks; then the
\* call of streamModelResponse
AskScored ==
    /\ askPc = "embedding"
    /\ askPc' = "stream"
    /\ \E sc \in {getScoresForQuery(index)} :
          /\ scores' = sc
          /\ route' = askRoute(sc)
          /\ chosen' = IF askRoute(sc) = "docs" THEN askChosen(sc, topK) ELSE <<>>
    /\ UNCHANGED <<question, index, topK, indexCalls, embedCalls,
                   streamVars, stripVars, chatVars, loadVars>>

\* fetchEmbedding throws: the exception leaves askDocsStream
AskEmbeddingFails ==
    /\ askPc = "embedding"
    /\ askPc' = "error"
    /\ UNCHANGED <<question, index, scores, topK, route, chosen, indexCalls, embedCalls,
                   streamVars, stripVars, chatVars, loadVars>>

\* getRelevantDocuments(question) of a retriever made with the default
\* minScore, its embedding having arrived
Retrieve ==
    /\ askPc = "start"
    /\ askPc' = "retrieved"
    /\ indexCalls' = indexCalls + 1
    /\ embedCalls' = embedCalls + 1
    /\ \E sc \in {getScoresForQuery(index)} :
          /\ scores' = sc
          /\ chosen' = getRelevantDocuments(sc, topK, 50)
    /\ UNCHANGED <<question, index, topK, route,
                   streamVars, stripVars, chatVars, loadVars>>

AskNext ==
    \/ AskChitchat
    \/ AskGetScores
    \/ AskScored
    \/ AskEmbeddingFails
    \/ Retrieve

AskSpec == AskInit /\ [][AskNext]_vars

(***************************************************************************)
(* stripLeadingPhrases applied to a text and then to its own result        *)
(***************************************************************************)
\* pieces of text: words and characters of the fallback sentence, both
\* apostrophes, punctuation and a letter outside the sentence
Pieces ==
    { <<"I">>, <<" ">>, <<"d","o","n">>, <<"'">>, <<"u2019">>, <<"t">>,
      <<"k","n","o","w">>, <<".">>, <<"x">> }

\* pieces in one input text
MaxPieces == 3

RECURSIVE Concat(_)
Concat(ps) == IF ps = <<>> THEN <<>> ELSE Head(ps) \o Concat(Tail(ps))

StripInputs == {Concat(ps) : ps \in UNION {[1..n -> Pieces] : n \in 0..MaxPieces}}

StripInit ==
    /\ stripIn \in StripInputs
    /\ stripOut = <<>>
    /\ source = "docs"
    /\ StreamIdle
    /\ AskIdle /\ ChatIdle /\ LoadIdle

\* stripLeadingPhrases(text)
StripOnce ==
    /\ stripOut = <<>>
    /\ stripOut' = <<stripLeadingPhrases(stripIn)>>
    /\ UNCHANGED <<stripIn, streamVars, askVars, chatVars, loadVars>>

\* stripLeadingPhrases applied to the result of the first call
StripAgain ==
    /\ Len(stripOut) = 1
    /\ stripOut' = Append(stripOut, stripLeadingPhrases(stripOut[1]))
    /\ UNCHANGED <<stripIn, streamVars, askVars, chatVars, loadVars>>

StripNext == StripOnce \/ StripAgain

StripSpec == StripInit /\ [][StripNext]_vars

(***************************************************************************)
(* The /v1/chat/completions handler (src/server.js)                        *)
(***************************************************************************)
\* lines of an upstream chunk, after trim: a data line, the upstream's own
\* data: [DONE] line, a comment line, an empty line
DataLineA == [kind |-> "data", text |-> "a"]

DataLineB == [kind |-> "data", text |-> "b"]

UpstreamDoneLine == [kind |-> "data", text |-> "[DONE]"]

CommentLine == [kind |-> "comment", text |-> ""]

EmptyLine == [kind |-> "empty", text |-> ""]

ChatChunks ==
    { <<DataLineA>>, <<DataLineB>>, <<CommentLine>>,
      <<DataLineA, EmptyLine, DataLineB>>, <<EmptyLine, UpstreamDoneLine>> }

\* data events of one request
MaxChatChunks == 3

ChatInit ==
    /\ chatPc = "start"
    /\ chatOut = <<>>
    /\ chatHeadersSent = FALSE
    /\ chatEnded = FALSE
    /\ chatChunks = 0
    /\ source = "openai"
    /\ StreamIdle
    /\ AskIdle /\ StripIdle /\ LoadIdle

\* the headers are set and the fetch is issued and awaited
ChatIssueFetch ==
    /\ chatPc = "start"
    /\ chatPc' = "fetch"
    /\ UNCHANGED <<chatOut, chatHeadersSent, chatEnded, chatChunks,
                   streamVars, askVars, stripVars, loadVars>>

\* res.write(error event); res.end(): the first write sends the headers
chatErrorEnd(message) ==
    /\ chatOut' = chatOut \o <<[kind |-> "error", text |-> message], [kind |-> "end", text |-> ""]>>
    /\ chatHeadersSent' = TRUE
    /\ chatEnded' = TRUE

\* the response is not ok or has no body
ChatFetchNotOk ==
    /\ chatPc = "fetch"
    /\ chatPc' = "done"
    /\ chatErrorEnd("response.text()")
    /\ UNCHANGED <<chatChunks, streamVars, askVars, stripVars, loadVars>>

\* fetch rejects: the catch of the handler, the headers not being sent yet
ChatFetchReject ==
    /\ chatPc = "fetch"
    /\ chatPc' = "done"
    /\ IF ~chatHeadersSent THEN chatErrorEnd("err.message")
       ELSE UNCHANGED <<chatOut, chatHeadersSent, chatEnded>>
    /\ UNCHANGED <<chatChunks, streamVars, askVars, stripVars, loadVars>>

\* the response is ok: the data, end and error listeners are registered
ChatFetchOk ==
    /\ chatPc = "fetch"
    /\ chatPc' = "relay"
    /\ UNCHANGED <<chatOut, chatHeadersSent, chatEnded, chatChunks,
                   streamVars, askVars, stripVars, loadVars>>

\* the lines of a chunk that start with data:
chatRelayed(chunk) == SelectSeq(chunk, LAMBDA l : l.kind = "data")

\* the data listener: every data line is written to the client
ChatData ==
    /\ chatPc = "relay"
    /\ chatChunks < MaxChatChunks
    /\ chatChunks' = chatChunks + 1
    /\ \E c \in ChatChunks :
          /\ chatOut' = chatOut \o chatRelayed(c)
          /\ chatHeadersSent' = (chatHeadersSent \/ chatRelayed(c) # <<>>)
    /\ UNCHANGED <<chatPc, chatEnded, streamVars, askVars, stripVars, loadVars>>

\* the end listener: data: [DONE] and res.end()
ChatEnd ==
    /\ chatPc = "relay"
    /\ chatPc' = "done"
    /\ chatOut' = chatOut \o <<[kind |-> "done", text |-> ""], [kind |-> "end", text |-> ""]>>
    /\ chatHeadersSent' = TRUE
    /\ chatEnded' = TRUE
    /\ UNCHANGED <<chatChunks, streamVars, askVars, stripVars, loadVars>>

\* the error listener: the stream fails and emits nothing more
ChatError ==
    /\ chatPc = "relay"
    /\ chatPc' = "failed"
    /\ IF ~chatHeadersSent THEN chatErrorEnd("err.message")
       ELSE UNCHANGED <<chatOut, chatHeadersSent, chatEnded>>
    /\ UNCHANGED <<chatChunks, streamVars, askVars, stripVars, loadVars>>

ChatNext ==
    \/ ChatIssueFetch
    \/ ChatFetchNotOk
    \/ ChatFetchReject
    \/ ChatFetchOk
    \/ ChatData
    \/ ChatEnd
    \/ ChatError

ChatSpec == ChatInit /\ [][ChatNext]_vars

(***************************************************************************)
(* The process: the startup load of the documents and the /ask-docs        *)
(* requests (src/server.js).  A store is named by the number of the        *)
(* loadDocs call that builds it; 0 is the undefined vectorStore.           *)
(***************************************************************************)
\* /ask-docs requests of one run
MaxRequests == 2

Requests == 1..MaxRequests

LoadInit ==
    /\ vectorStore = 0
    /\ loadCalls = 0
    /\ startupPc = "start"
    /\ reqPc = [r \in Requests |-> "waiting"]
    /\ reqStore = [r \in Requests |-> 0]
    /\ source = "docs"
    /\ StreamIdle
    /\ AskIdle /\ StripIdle /\ ChatIdle

\* the startup function calls loadDocs and awaits it
StartupLoad ==
    /\ startupPc = "start"
    /\ startupPc' = "loading"
    /\ loadCalls' = loadCalls + 1
    /\ UNCHANGED <<vectorStore, reqPc, reqStore, streamVars, askVars, stripVars, chatVars>>

\* the startup loadDocs returns its store, which is assigned to vectorStore
StartupLoaded ==
    /\ startupPc = "loading"
    /\ startupPc' = "done"
    /\ vectorStore' = 1
    /\ UNCHANGED <<loadCalls, reqPc, reqStore, streamVars, askVars, stripVars, chatVars>>

\* the startup loadDocs throws: the error is logged
StartupFails ==
    /\ startupPc = "loading"
    /\ startupPc' = "failed"
    /\ UNCHANGED <<vectorStore, loadCalls, reqPc, reqStore,
                   streamVars, askVars, stripVars, chatVars>>

\* a request arrives after the startup function has made its call: it calls
\* loadDocs itself if vectorStore is not set, else askDocsStream
ReqArrive(r) ==
    /\ startupPc # "start"
    /\ reqPc[r] = "waiting"
    /\ IF vectorStore = 0
       THEN /\ loadCalls' = loadCalls + 1
            /\ reqPc' = [reqPc EXCEPT ![r] = "loading"]
            /\ reqStore' = [reqStore EXCEPT ![r] = loadCalls + 1]
       ELSE /\ reqPc' = [reqPc EXCEPT ![r] = "asking"]
            /\ reqStore' = [reqStore EXCEPT ![r] = vectorStore]
            /\ UNCHANGED loadCalls
    /\ UNCHANGED <<vectorStore, startupPc, streamVars, askVars, stripVars, chatVars>>

\* the loadDocs of a request returns: vectorStore is assigned and passed to
\* askDocsStream
ReqLoaded(r) ==
    /\ reqPc[r] = "loading"
    /\ reqPc' = [reqPc EXCEPT ![r] = "asking"]
    /\ vectorStore' = reqStore[r]
    /\ UNCHANGED <<loadCalls, startupPc, reqStore, streamVars, askVars, stripVars, chatVars>>

\* the loadDocs of a request throws: the catch of the handler answers
ReqLoadFails(r) ==
    /\ reqPc[r] = "loading"
    /\ reqPc' = [reqPc EXCEPT ![r] = "error"]
    /\ reqStore' = [reqStore EXCEPT ![r] = 0]
    /\ UNCHANGED <<vectorStore, loadCalls, startupPc, streamVars, askVars, stripVars, chatVars>>

\* askDocsStream returns
ReqDone(r) ==
    /\ reqPc[r] = "asking"
    /\ reqPc' = [reqPc EXCEPT ![r] = "done"]
    /\ UNCHANGED <<vectorStore, loadCalls, startupPc, reqStore,
                   streamVars, askVars, stripVars, chatVars>>

LoadNext ==
    \/ StartupLoad
    \/ StartupLoaded
    \/ StartupFails
    \/ \E r \in Requests : ReqArrive(r)
    \/ \E r \in Requests : ReqLoaded(r)
    \/ \E r \in Requests : ReqLoadFails(r)
    \/ \E r \in Requests : ReqDone(r)

LoadSpec == LoadInit /\ [][LoadNext]_vars

\* the upstream answers the fetch and every pending read, and callbacks run
LiveSpec ==
    /\ Spec
    /\ WF_vars(IssueFetch)
    /\ WF_vars(FetchNotOk \/ FetchOk \/ FetchReject)
    /\ WF_vars(ReadChunk \/ ReadDone \/ ReadCancelled \/ ReadError)

(***************************************************************************)
(* Properties                                                              *)
(***************************************************************************)
\* positions of out holding an entry of the given kind
Positions(kind) == {i \in DOMAIN out : out[i].kind = kind}

Count(kind) == Cardinality(Positions(kind))

\* releases of the upstream reader: reader.cancel() is the only release in the
\* source, reader.releaseLock() is never called
readerReleases == cancelCalls

\* C1: the terminal marker [DONE] is written at most once per session, in
\* document mode and in general mode (where both finalizers run)
C1_DoneAtMostOnce == Count("done") <= 1

\* a general-mode session that ran both finalizers and wrote [DONE]
C1_Witness == pc = "done" /\ source = "openai" /\ readerObtained /\ Count("done") = 1

\* C2: once the client has disconnected nothing is written to the channel and
\* the controller does not end it
C2_NoWriteAfterDisconnect == \A i \in DOMAIN out : ~out[i].gone

\* C3: when the client disconnects mid-stream reader.cancel is invoked exactly
\* once, whatever close and error events are delivered
C3_CancelExactlyOnce == clientClosed => cancelCalls = 1

\* C4: a finalized session that obtained a reader has released it exactly once
C4_ReleasedExactlyOnce == (pc = "done" /\ readerObtained) => readerReleases = 1

\* C5: after finalization neither the start timeout nor the flush timer is
\* scheduled
C5_TimersCancelled == pc = "done" => (~flushTimer /\ startTimer # "pending")

\* C6: in document mode the sent length never exceeds the buffer length and
\* never decreases
C6_SentLenMonotone ==
    /\ [](source = "docs" => lastSentLen <= Len(buffer))
    /\ [][source = "docs" => lastSentLen' >= lastSentLen]_vars

\* a streaming document session with sent text and unsent text in the buffer
C6_Witness ==
    source = "docs" /\ startedStreaming /\ lastSentLen > 0 /\ lastSentLen < Len(buffer)

\* a document-mode session that read from the upstream and finalized with the
\* client connected
DocsFinalConnected ==
    pc = "done" /\ source = "docs" /\ readerObtained /\ finalConnected

\* C7: at finalization of a document-mode session with the client connected,
\* the fallback sentence is written iff no other content event was written;
\* it is then the only content event and precedes [DONE]; some content event
\* always precedes [DONE]
C7_FallbackIffNoContent ==
    DocsFinalConnected =>
        /\ (fallbackAt # 0) <=> (Positions("content") \ {fallbackAt} = {})
        /\ fallbackAt # 0 =>
              /\ out[fallbackAt].kind = "content"
              /\ out[fallbackAt].content = FallbackSentence
              /\ Positions("content") = {fallbackAt}
        /\ \E d \in Positions("done") : \E c \in Positions("content") : c < d

\* a finalized document session that received tokens, all stripped away, and
\* whose only content event is the fallback sentence
C7_Witness == DocsFinalConnected /\ fallbackAt # 0 /\ chunksRead > 0

\* C8: once the start timeout has elapsed, a document session that has not
\* ended is streaming whenever its stripped buffer is non-empty
C8_StreamingAfterTimeout ==
    ( /\ source = "docs" /\ pc = "read" /\ timeoutElapsed /\ ~ended
      /\ Trim(stripLeadingPhrases(buffer)) # <<>> )
    => startedStreaming

\* C9: a non-ok upstream response gives one upstream call, one error line and
\* one res.end(), and no keep-alive, content event or [DONE]
C9_NotOkSingleError ==
    response = "notok" =>
        /\ fetchCalls = 1
        /\ Count("error") = 1
        /\ Count("ping") = 0 /\ Count("content") = 0 /\ Count("done") = 0
        /\ endCalls = 1 /\ Count("end") = 1
        /\ Len(out) = 2 /\ out[1].kind = "error" /\ out[2].kind = "end"

\* a session whose upstream call returned a non-ok status
C9_Witness == response = "notok" /\ pc = "done" /\ writableEnded

\* C10 (amended): under fairness every session finalizes; a session whose
\* upstream call returned a success status and that finalized with the client
\* connected wrote [DONE] once and then ended the channel, also after a read
\* failure; once the disconnect is observed the reader is cancelled, the read
\* loop exits and nothing more is written
C10_EventuallyFinalized ==
    /\ <>(pc = "done")
    /\ []((pc = "done" /\ readerObtained /\ finalConnected) =>
            /\ Count("done") = 1
            /\ writableEnded /\ endCalls = 1
            /\ Len(out) >= 2
            /\ out[Len(out)].kind = "end" /\ out[Len(out) - 1].kind = "done")
    /\ [](clientClosed => cancelCalls >= 1)
    /\ ((pc = "read" /\ clientClosed) ~> (pc = "done"))
    /\ [][clientClosed => out' = out]_vars

\* C10 as stated, for every finalized session whose client stayed connected,
\* whatever the status of the upstream response: [DONE] was written once and
\* the channel was ended
C10_Original ==
    (pc = "done" /\ finalConnected) => (Count("done") = 1 /\ writableEnded)

\* a session whose upstream read failed and that still wrote [DONE]
C10_Witness ==
    pc = "done" /\ readFailed /\ finalConnected /\ Count("done") = 1 /\ writableEnded

(***************************************************************************)
(* General mode, malformed lines, the start of streaming                   *)
(***************************************************************************)
\* the non-empty tokens of the well-formed data lines of a chunk that precede
\* its [DONE] line, in order
RECURSIVE tokensBeforeDone(_)
tokensBeforeDone(lines) ==
    IF lines = <<>> THEN <<>>
    ELSE IF Head(lines).kind = "done" THEN <<>>
    ELSE (IF Head(lines).kind = "json" /\ Head(lines).content # <<>>
          THEN <<Head(lines).content>> ELSE <<>>) \o tokensBeforeDone(Tail(lines))

\* one content event per token, written to a connected client
contentEvents(toks) ==
    [i \in 1..Len(toks) |-> [kind |-> "content", content |-> toks[i], gone |-> FALSE]]

\* C11: in general mode, a read that delivers a chunk while the client is
\* connected appends to the channel exactly one content event per non-empty
\* token, unmodified and in upstream order, before the next read; content
\* events are written by no other step; nothing is buffered and neither timer
\* is ever scheduled
C11_GeneralForwarding ==
    /\ [][(source = "openai" /\ chunksRead' = chunksRead + 1 /\ ~clientGone)
            => out' = out \o contentEvents(tokensBeforeDone(value'))]_vars
    /\ [][(source = "openai" /\ chunksRead' = chunksRead)
            => \A i \in DOMAIN out' : out'[i].kind = "content" => i \in DOMAIN out]_vars
    /\ [](source = "openai" =>
            (~flushTimer /\ startTimer = "null" /\ buffer = <<>> /\ lastSentLen = 0))

\* a general-mode session that forwarded the token I don't and a later token
C11_Witness ==
    /\ source = "openai" /\ ~clientGone /\ chunksRead >= 2
    /\ \E i, j \in Positions("content") : i < j /\ out[i].content = TokRefusal

\* a chunk without its malformed lines
withoutMalformed(chunk) == SelectSeq(chunk, LAMBDA l : l.kind # "malformed")

\* C12: in every state of a session that awaits a read, a malformed line
\* leaves the whole session state as it is, and a chunk is processed exactly
\* as the same chunk without its malformed lines: the lines after it are
\* still processed and the session goes on reading
C12_MalformedSkipped ==
    pc = "read" =>
        /\ source = "docs" => docsLine(Cur, MalformedLine) = Cur
        /\ source = "openai" => generalLine(Cur, MalformedLine) = Cur
        /\ \A c \in Chunks :
              forLines(Cur, dataLines(c)) = forLines(Cur, dataLines(withoutMalformed(c)))

\* a document session that read a chunk with a malformed line and appended the
\* token of a later line of that chunk
C12_Witness ==
    /\ pc = "read" /\ source = "docs"
    /\ \E i \in DOMAIN value : value[i].kind = "malformed"
    /\ buffer = TokParis \o TokSpace

\* C20: in document mode, while streaming has not started no content event
\* taken from the stream has been written and the sent length is 0; the step
\* that writes the first one is a step after which the trimmed buffer has at
\* least 128 characters, or the firing of the start timeout with a non-empty
\* stripped buffer, or the finalization with a non-empty stripped buffer
C20_FirstFlushCondition ==
    /\ []((source = "docs" /\ ~startedStreaming) =>
            (Positions("content") \ {fallbackAt} = {} /\ lastSentLen = 0))
    /\ [][(/\ source = "docs"
           /\ Positions("content") \ {fallbackAt} = {}
           /\ {i \in DOMAIN out' : out'[i].kind = "content"} \ {fallbackAt'} # {})
          => \/ Len(Trim(buffer')) >= STREAM_START_THRESHOLD
             \/ (~timeoutElapsed /\ timeoutElapsed' /\ Trim(buffer') # <<>>)
             \/ (pc = "read" /\ pc' = "done" /\ Trim(buffer') # <<>>)]_vars

\* a document session that started streaming at the threshold, before the
\* start timeout and before the end of the stream
C20_Witness ==
    /\ source = "docs" /\ pc = "read" /\ startedStreaming /\ ~timeoutElapsed
    /\ Positions("content") # {} /\ Len(Trim(buffer)) >= STREAM_START_THRESHOLD

(***************************************************************************)
(* The fallback sentence arriving from the upstream                        *)
(***************************************************************************)
\* C17: when the upstream content of a document session is the fallback
\* sentence in consecutive short tokens, no content event is ever taken from
\* the stream: the only content event is the synthesized fallback sentence,
\* and a session that received the whole sentence and finalized with the
\* client connected wrote it, then [DONE], then ended the channel
C17_OnlySyntheticFallback ==
    /\ \A i \in Positions("content") : i = fallbackAt /\ out[i].content = FallbackSentence
    /\ (pc = "done" /\ finalConnected /\ chunksRead = NumSentenceTokens) =>
          /\ fallbackAt # 0 /\ buffer = <<>>
          /\ Len(out) = fallbackAt + 2
          /\ out[fallbackAt + 1].kind = "done" /\ out[fallbackAt + 2].kind = "end"

(***************************************************************************)
(* Routing and chunk selection                                             *)
(***************************************************************************)
\* C13: a question classified as chitchat is routed to general mode, and
\* askDocsStream makes no call of getScoresForQuery and no query-embedding
\* call for it
C13_ChitchatSkipsIndex ==
    (isLikelyChitchat(question) /\ askPc # "retrieved") =>
        /\ indexCalls = 0 /\ embedCalls = 0
        /\ askPc \in {"start", "stream"}
        /\ askPc = "stream" => (route = "openai" /\ chosen = <<>>)

\* the one-word question why, classified as chitchat, has been routed
C13_Witness ==
    question = QWhy /\ isLikelyChitchat(question) /\ askPc = "stream" /\ route = "openai"

\* the highest similarity in the index, 0 for an empty index
indexTop == IF index = <<>> THEN 0
            ELSE CHOOSE v \in {index[i] : i \in DOMAIN index} :
                    \A i \in DOMAIN index : index[i] <= v

\* C14 (amended): for a question that is not chitchat and whose query
\* embedding arrived, the source is openai with no document chunk exactly when
\* the top score is below 0.25 (0 for an empty index) and docs otherwise; an
\* empty index gives openai
C14_RouteByTopScore ==
    (askPc = "stream" /\ ~isLikelyChitchat(question)) =>
        /\ route \in {"openai", "docs"}
        /\ (route = "openai") <=> (indexTop < MIN_SCORE_FOR_DOCS)
        /\ route = "openai" => chosen = <<>>
        /\ route = "docs" => chosen # <<>>
        /\ index = <<>> => route = "openai"

\* C14 as stated: a request for a question that is not chitchat, on an empty
\* index, never ends with an error
C14_Original ==
    (~isLikelyChitchat(question) /\ index = <<>>) => askPc # "error"

\* a question that is not chitchat, on an empty index, routed to general mode
C14_Witness ==
    /\ askPc = "stream" /\ ~isLikelyChitchat(question)
    /\ index = <<>> /\ route = "openai"

\* C15: the chunks chosen at either call site are at most topK entries of the
\* sorted score list, taken in its order, and at least one whenever the index
\* is not empty and its top score is at least 0.25
C15_SelectionBounds ==
    (askPc = "retrieved" \/ (askPc = "stream" /\ route = "docs")) =>
        /\ Len(chosen) <= topK
        /\ (index # <<>> /\ indexTop >= MIN_SCORE_FOR_DOCS) => Len(chosen) >= 1
        /\ \A i \in DOMAIN scores : i < Len(scores) => scores[i].score >= scores[i + 1].score
        /\ \A i \in DOMAIN chosen : \E j \in DOMAIN scores : chosen[i] = scores[j]

\* the retriever fell back to the unfiltered top of a list longer than topK
C15_Witness ==
    /\ askPc = "retrieved" /\ Len(scores) > topK
    /\ indexTop >= MIN_SCORE_FOR_DOCS /\ indexTop < 50
    /\ Len(chosen) = topK

(***************************************************************************)
(* The phrase stripper                                                     *)
(***************************************************************************)
\* C16: stripLeadingPhrases is idempotent: applied to its own result it
\* returns that result
C16_StripIdempotent == Len(stripOut) = 2 => stripOut[2] = stripOut[1]

(***************************************************************************)
(* The passthrough endpoint                                                *)
(***************************************************************************)
\* C18: once the upstream stream of a passthrough request has ended or
\* failed, or its call has failed, the client channel is ended and the last
\* thing written before the end is the single terminal event of the handler,
\* [DONE] or an error event
C18_ClosedWithTerminalEvent ==
    chatPc \in {"done", "failed"} =>
        /\ chatEnded
        /\ Len(chatOut) >= 2
        /\ chatOut[Len(chatOut)].kind = "end"
        /\ chatOut[Len(chatOut) - 1].kind \in {"done", "error"}
        /\ Cardinality({i \in DOMAIN chatOut : chatOut[i].kind \in {"done", "error"}}) = 1

(***************************************************************************)
(* The ingestion of the documents                                          *)
(***************************************************************************)
\* C19: loadDocs runs at most once per process, and a request that queries
\* an index queries the one held by vectorStore, which is not replaced
C19_LoadedOnce ==
    /\ loadCalls <= 1
    /\ \A r \in Requests : reqPc[r] = "asking" => reqStore[r] = vectorStore

(***************************************************************************)
(* Increments after the start of streaming                                 *)
(***************************************************************************)
\* text is the content of the events evs, in order, each followed by white
\* space only
RECURSIVE reproduces(_, _)
reproduces(text, evs) ==
    IF evs = <<>> THEN \A i \in DOMAIN text : text[i] \in WhiteSpace
    ELSE LET c == Head(evs).content
         IN  /\ Len(c) <= Len(text)
             /\ SubSeq(text, 1, Len(c)) = c
             /\ \E k \in Len(c)..Len(text) :
                   /\ \A i \in (Len(c) + 1)..k : text[i] \in WhiteSpace
                   /\ reproduces(From(text, k + 1), Tail(evs))

\* C21: in a streaming document session the content events, in order,
\* reproduce the sent part of the buffer up to white space after each
\* increment: no increment was passed through the phrase stripper and no
\* unsent text was dropped
C21_IncrementsReproduceBuffer ==
    (source = "docs" /\ startedStreaming /\ ~clientGone) =>
        reproduces(SubSeq(buffer, 1, lastSentLen),
                   SelectSeq(out, LAMBDA e : e.kind = "content"))

(***************************************************************************)
(* The end of the upstream stream                                          *)
(***************************************************************************)
\* C22: once the read loop has consumed a data: [DONE] line, reading a later
\* chunk appends nothing to the buffer and writes nothing to the client, in
\* document mode and in general mode
C22_NothingAfterUpstreamDone ==
    [][(upstreamDone /\ chunksRead' = chunksRead + 1)
        => (buffer' = buffer /\ out' = out)]_vars

(***************************************************************************)
(* After finalization                                                      *)
(***************************************************************************)
\* C23: once the ended flag is set, by the finalizers or by a client
\* disconnect, no step (flush tick, start timeout, close or error event, the
\* exit of the read loop) writes to the client channel or changes the buffer,
\* the sent length or the started-streaming flag
C23_QuietAfterEnded ==
    [][ended => /\ out' = out
                /\ buffer' = buffer
                /\ lastSentLen' = lastSentLen
                /\ startedStreaming' = startedStreaming]_vars

\* a streaming document session with unsent text whose client disconnected
\* while the flush timer is scheduled
C23_Witness ==
    /\ source = "docs" /\ ended /\ clientClosed /\ startedStreaming
    /\ flushTimer /\ lastSentLen < Len(buffer)

====
